---------------------------- MODULE Spec2Model ----------------------------
(***************************************************************************)
(* A model of CohpyIntro.py: the Roster persistence layer (an sqlite file  *)
(* with one table, members, reached through one connection per session)    *)
(* and the shell's validation of member ids.                               *)
(*                                                                         *)
(* A Python value that may be None is a sequence of length at most one:    *)
(* None is <<>> and any other value v is <<v>>.                            *)
(***************************************************************************)
EXTENDS Integers, Sequences, FiniteSets, TLC

\* Bounds of the model.
MaxRows == 2
MaxRuns == 2
MaxTableRows == 2
\* The width in bits of sqlite's INTEGER, which is 64, scaled down.
IntBits == 4

None == <<>>

Val(v) == <<v>>

\* Text the user or a caller supplies for the three columns.
Members ==
    { [first |-> Val("Ada"), last |-> Val("Lovelace"), introducedDate |-> None],
      [first |-> Val("Lovelace"), last |-> Val("Ada"),
       introducedDate |-> Val("2016-05-01")] }

\* The integers sqlite stores: what a Python int must lie within to be bound
\* to a statement's parameter.
SqliteMaxInt == 2 ^ (IntBits - 1) - 1

SqliteMinInt == 0 - 2 ^ (IntBits - 1)

\* Identifiers a caller may pass: zero, negatives, stored and unstored ones,
\* and Python ints beyond sqlite's.
Ids == (-1)..(MaxRows + 1) \cup {SqliteMinInt - 1, SqliteMaxInt + 1}

\* A Member object: Member.__init__ leaves rowid None until someone sets it.
Member(first, last) ==
    [rowid |-> None, first |-> first, last |-> last, introducedDate |-> None]

WithRowid(m, rowid) == [m EXCEPT !.rowid = rowid]

WithFields(m, f) ==
    [m EXCEPT !.first = f.first, !.last = f.last,
              !.introducedDate = f.introducedDate]

\* The member objects a caller can hand to update: rowid unset, or any id.
MemberArgs ==
    { WithRowid(WithFields(Member(None, None), f), rid) :
        f \in Members, rid \in {None} \cup {Val(i) : i \in Ids} }

\* The member objects a caller can hand to add: a new one, or one that was
\* fetched before and so carries a rowid.
AddArgs == { m \in MemberArgs : m.rowid \in {None, Val(1)} }

VARIABLES
    tableExists,  \* the file's sqlite_master lists the table members
    stored,       \* the committed rows of members in the file
    conn,         \* self.conn: "none", "open" or "closed"
    inTxn,        \* the connection has an open (implicit) transaction
    pending,      \* the rows of members as the connection sees them
    pc,           \* "outside" the with statement or inside the "session"
    runs,         \* number of with statements started so far
    conns,        \* per connection acquired: how often close() was called
    call,         \* the last operation and its arguments
    ret,          \* what the last operation returned or raised
    addLog,       \* every INSERT made: the run it was made in, the rowid assigned
    fmt,          \* a formatTable generator: its arguments, where it is
                  \* suspended, and the lines it has yielded so far
    edit          \* the shell's do_edit: where it is, its rowid and member,
                  \* and whether the rowid was read since the last get

vars == <<tableExists, stored, conn, inTxn, pending, pc, runs, conns,
          call, ret, addLog, fmt, edit>>

----------------------------------------------------------------------------
\* sqlite and the pure parts of Roster

RowIds(rows) == { r.rowid : r \in rows }

MaxOf(S) == CHOOSE x \in S : \A y \in S : y <= x

\* A rowid taken from the largest one without stepping past it.
NewRowidNoStep(rows) == IF rows = {} THEN 1 ELSE MaxOf(RowIds(rows))

\* sqlite's rowid for an INSERT into a table without INTEGER PRIMARY KEY:
\* one more than the largest rowid in the table, 1 for an empty table.
NewRowid(rows) == IF rows = {} THEN 1 ELSE MaxOf(RowIds(rows)) + 1

\* An INSERT that binds no introducedDate.
insertRowNoDate(rows, member) ==
    rows \cup { [rowid |-> NewRowid(rows), first |-> member.first,
                 last |-> member.last, introducedDate |-> None] }

\* INSERT INTO members(first, last, introducedDate) VALUES(?, ?, ?)
insertRow(rows, member) ==
    rows \cup { [rowid |-> NewRowid(rows), first |-> member.first,
                 last |-> member.last,
                 introducedDate |-> member.introducedDate] }

\* cursor.execute(sql, (..., rowid)): binding a Python int outside sqlite's
\* INTEGER raises OverflowError; None binds as NULL.
Bindable(param) ==
    param = None \/ (SqliteMinInt <= param[1] /\ param[1] <= SqliteMaxInt)

\* WHERE rowid = ? with the parameter an integer or NULL (NULL matches nothing)
RowidMatches(r, param) == param # None /\ r.rowid = param[1]

\* SELECT ... FROM members WHERE rowid = ?
selectByRowid(rows, param) == { r \in rows : RowidMatches(r, param) }

\* An UPDATE whose SET list leaves out last.
updateRowsKeepLast(rows, member) ==
    { IF RowidMatches(r, member.rowid)
        THEN [r EXCEPT !.first = member.first,
                       !.introducedDate = member.introducedDate]
        ELSE r : r \in rows }

\* An UPDATE without its WHERE clause.
updateRowsNoWhere(rows, member) ==
    { [r EXCEPT !.first = member.first, !.last = member.last,
                !.introducedDate = member.introducedDate] : r \in rows }

\* UPDATE members SET first = ?, last = ?, introducedDate = ? WHERE rowid = ?
updateRows(rows, member) ==
    { IF RowidMatches(r, member.rowid)
        THEN [r EXCEPT !.first = member.first, !.last = member.last,
                       !.introducedDate = member.introducedDate]
        ELSE r : r \in rows }

\* SELECT ... FROM members ORDER BY rowid DESC
RECURSIVE orderByRowidDesc(_)
orderByRowidDesc(rows) ==
    IF rows = {} THEN <<>>
    ELSE LET most == CHOOSE r \in rows : \A q \in rows : q.rowid <= r.rowid
         IN  <<most>> \o orderByRowidDesc(rows \ {most})

\* SELECT ... FROM members ORDER BY rowid
RECURSIVE orderByRowid(_)
orderByRowid(rows) ==
    IF rows = {} THEN <<>>
    ELSE LET least == CHOOSE r \in rows : \A q \in rows : r.rowid <= q.rowid
         IN  <<least>> \o orderByRowid(rows \ {least})

buildMember(row) ==
    WithRowid(
        [Member(row.first, row.last) EXCEPT !.introducedDate = row.introducedDate],
        Val(row.rowid))

\* A createTables that issues its CREATE without looking at sqlite_master,
\* on a store that replaces the table.
createTablesAnew(exists, rows) == {}

\* createTables: the rows of members once it returns
createTables(exists, rows) == IF exists THEN rows ELSE {}

Returned(kind, value) == [kind |-> kind, value |-> value]

\* Roster.list's return value
list(rows) ==
    LET sorted == orderByRowid(rows)
    IN  Returned("list", [i \in 1..Len(sorted) |-> buildMember(sorted[i])])

\* Roster.get's return value
get(rows, rowid) ==
    LET found == orderByRowid(selectByRowid(rows, Val(rowid)))
    IN  IF ~Bindable(Val(rowid)) THEN Returned("raise", "OverflowError")
        ELSE IF Len(found) = 0 THEN Returned("None", None)
        ELSE Returned("member", buildMember(found[1]))

----------------------------------------------------------------------------
\* The shell's validateRowid

Digits == <<"0", "1", "2">>

\* What the user may type at "Enter member id: ", as sequences of characters.
Inputs ==
    { <<>>, <<"1">>, <<"2">>, <<"0">>, <<"-", "1">>, <<"x">>, <<" ", "1">>,
      <<"1", "x">>, <<"1", "0">>, <<" ">> }

IsDigit(c) == \E d \in 1..Len(Digits) : Digits[d] = c

DigitValue(c) == (CHOOSE d \in 1..Len(Digits) : Digits[d] = c) - 1

RECURSIVE strip(_)
strip(s) ==
    IF s = <<>> THEN s
    ELSE IF Head(s) = " " THEN strip(Tail(s))
    ELSE IF s[Len(s)] = " " THEN strip(SubSeq(s, 1, Len(s) - 1))
    ELSE s

RECURSIVE DecimalValue(_)
DecimalValue(s) ==
    IF s = <<>> THEN 0
    ELSE 10 * DecimalValue(SubSeq(s, 1, Len(s) - 1)) + DigitValue(s[Len(s)])

\* Python's int(str): None stands for ValueError
int(s) ==
    LET t == strip(s)
        negative == t # <<>> /\ Head(t) = "-"
        digits == IF negative THEN Tail(t) ELSE t
    IN  IF digits = <<>> \/ \E i \in 1..Len(digits) : ~IsDigit(digits[i])
          THEN None
        ELSE Val(IF negative THEN 0 - DecimalValue(digits) ELSE DecimalValue(digits))

\* A validateRowid without its test rowid < 1.
validateRowidAnyInt(text) == int(text)

validateRowid(text) ==
    LET rowid == int(text)
    IN  IF rowid = None THEN None
        ELSE IF rowid[1] < 1 THEN None
        ELSE rowid

----------------------------------------------------------------------------
\* formatTable. Text is a sequence of characters; a cell is a Python value:
\* an int, a str or None.

DefaultColWidth == 20

DefaultColsep == <<" ", " ", " ">>

IntCell(n) == [t |-> "int", v |-> <<n>>]

StrCell(text) == [t |-> "str", v |-> text]

NoneCell == [t |-> "none", v |-> <<>>]

ColumnFormat(name, width) == [name |-> name, width |-> width]

DecimalDigits == <<"0", "1", "2", "3", "4", "5", "6", "7", "8", "9">>

\* str(n) for an int n
RECURSIVE strOfInt(_)
strOfInt(n) ==
    IF n < 0 THEN <<"-">> \o strOfInt(0 - n)
    ELSE IF n < 10 THEN <<DecimalDigits[n + 1]>>
    ELSE strOfInt(n \div 10) \o <<DecimalDigits[(n % 10) + 1]>>

\* str(column)
str(cell) ==
    IF cell.t = "int" THEN strOfInt(cell.v[1])
    ELSE IF cell.t = "str" THEN cell.v
    ELSE <<"N", "o", "n", "e">>

Repeat(c, n) == [k \in 1..n |-> c]

\* A ljust that cuts the text to the width.
ljustCut(text, width) ==
    IF Len(text) >= width THEN SubSeq(text, 1, width)
    ELSE text \o Repeat(" ", width - Len(text))

\* str.ljust(width)
ljust(text, width) ==
    IF Len(text) >= width THEN text
    ELSE text \o Repeat(" ", width - Len(text))

\* A join that leaves the separator out.
RECURSIVE joinNoSep(_, _)
joinNoSep(sep, pieces) ==
    IF pieces = <<>> THEN <<>>
    ELSE Head(pieces) \o joinNoSep(sep, Tail(pieces))

\* sep.join(pieces)
RECURSIVE join(_, _)
join(sep, pieces) ==
    IF pieces = <<>> THEN <<>>
    ELSE IF Len(pieces) = 1 THEN pieces[1]
    ELSE pieces[1] \o sep \o join(sep, Tail(pieces))

\* kwargs.get(key, default), a key that was not passed being None here
kwargsGet(value, default) == IF value = None THEN default ELSE value[1]

\* columnCount: -1 without columnFormats or with an empty list of them
columnCountOf(columnFormats) ==
    IF columnFormats = None THEN -1
    ELSE IF Len(columnFormats[1]) = 0 THEN -1
    ELSE Len(columnFormats[1])

\* A column check that looks at the first row only.
rowMismatchFirstOnly(i, row, columnCount) ==
    i = 0 /\ columnCount >= 1 /\ Len(row) # columnCount

\* if columnCount >= 1 and len(row) != columnCount
rowMismatch(i, row, columnCount) == columnCount >= 1 /\ Len(row) # columnCount

headings(columnFormats) ==
    [j \in 1..Len(columnFormats[1]) |->
        ljust(columnFormats[1][j].name, columnFormats[1][j].width)]

underlines(columnFormats) ==
    [j \in 1..Len(columnFormats[1]) |-> Repeat("-", columnFormats[1][j].width)]

\* Pieces that are the bare text of the columns, not justified.
piecesBare(row, columnFormats, defaultColWidth) ==
    [j \in 1..Len(row) |-> str(row[j])]

\* pieces: the row's columns, each justified to its width
pieces(row, columnFormats, defaultColWidth) ==
    [j \in 1..Len(row) |->
        IF columnCountOf(columnFormats) < 1
          THEN ljust(str(row[j]), defaultColWidth)
          ELSE ljust(str(row[j]), columnFormats[1][j].width)]

\* A generator as formatTable(rows, columnFormats, **kwargs) returns it:
\* nothing of the body has run yet.
Generator(rows, columnFormats, colsep, defaultColWidth) ==
    [rows |-> rows, columnFormats |-> columnFormats, colsep |-> colsep,
     defaultColWidth |-> defaultColWidth, i |-> 0, at |-> "top",
     out |-> <<>>, status |-> "running", error |-> None]

Raised(f, error) == [f EXCEPT !.status = "raised", !.error = Val(error)]

\* Lines 41-48: the row's line is yielded and the loop goes to the next row;
\* columnFormats[j] raises IndexError for a row longer than columnFormats.
yieldRow(f) ==
    LET row == f.rows[f.i + 1]
        columnCount == columnCountOf(f.columnFormats)
    IN  IF columnCount >= 1 /\ Len(row) > columnCount
          THEN Raised(f, [type |-> "IndexError", row |-> f.i,
                          actual |-> Len(row), expected |-> columnCount])
        ELSE [f EXCEPT
                !.out = Append(@, join(kwargsGet(f.colsep, DefaultColsep),
                                       pieces(row, f.columnFormats,
                                              kwargsGet(f.defaultColWidth,
                                                        DefaultColWidth)))),
                !.i = @ + 1,
                !.at = "top"]

\* A formatTable that yields its two header lines before the loop over rows.
nextItemHeaderFirst(f) ==
    LET columnCount == columnCountOf(f.columnFormats)
        colsep == kwargsGet(f.colsep, DefaultColsep)
    IN  IF f.status # "running" THEN f
        ELSE IF f.at = "top" /\ f.i = 0 /\ columnCount >= 1 /\ f.out = <<>>
          THEN [f EXCEPT !.out = Append(@, join(colsep, headings(f.columnFormats))),
                         !.at = "underlines"]
        ELSE IF f.at = "underlines"
          THEN [f EXCEPT !.out = Append(@, join(colsep, underlines(f.columnFormats))),
                         !.at = IF Len(f.rows) = 0 THEN "top" ELSE "pieces"]
        ELSE IF f.at = "top" /\ f.i >= Len(f.rows)
          THEN [f EXCEPT !.status = "stopped"]
        ELSE yieldRow(f)

\* One next() on the generator: the body runs from where it is suspended to
\* its next yield, to a raise, or off its end (StopIteration).
nextItem(f) ==
    LET columnCount == columnCountOf(f.columnFormats)
        colsep == kwargsGet(f.colsep, DefaultColsep)
    IN  IF f.status # "running" THEN f
        ELSE IF f.at = "top"
          THEN IF f.i >= Len(f.rows)
                 THEN [f EXCEPT !.status = "stopped"]
               ELSE IF rowMismatch(f.i, f.rows[f.i + 1], columnCount)
                 THEN Raised(f, [type |-> "Exception", row |-> f.i,
                                 actual |-> Len(f.rows[f.i + 1]),
                                 expected |-> columnCount])
               ELSE IF f.i = 0 /\ columnCount >= 1
                 THEN [f EXCEPT
                         !.out = Append(@, join(colsep, headings(f.columnFormats))),
                         !.at = "underlines"]
               ELSE yieldRow(f)
        ELSE IF f.at = "underlines"
          THEN [f EXCEPT
                  !.out = Append(@, join(colsep, underlines(f.columnFormats))),
                  !.at = "pieces"]
        ELSE yieldRow(f)

\* The texts and cells the callers of formatTable pass.
TextId == <<"i", "d">>

TextName == <<"n", "a", "m", "e">>

TextAnn == <<"A", "n", "n">>

TextBob == <<"B", "o", "b">>

TextExtra == <<"e", "x", "t", "r", "a">>

TextAdaLovelace == <<"A", "d", "a", " ", "L", "o", "v", "e", "l", "a", "c", "e">>

FormatsPool ==
    { None, Val(<<>>),
      Val(<<ColumnFormat(TextId, 4), ColumnFormat(TextName, 10)>>) }

RowPool ==
    { <<IntCell(1), StrCell(TextAnn)>>,
      <<IntCell(12), StrCell(TextBob)>>,
      <<IntCell(1), StrCell(TextAnn), StrCell(TextExtra)>>,
      <<StrCell(TextExtra), StrCell(TextAdaLovelace)>>,
      <<NoneCell>> }

RECURSIVE TablesOfLen(_)
TablesOfLen(n) ==
    IF n = 0 THEN {<<>>}
    ELSE { Append(rows, row) : rows \in TablesOfLen(n - 1), row \in RowPool }

Tables == UNION { TablesOfLen(n) : n \in 0..MaxTableRows }

Generators ==
    { Generator(rows, columnFormats, colsep, defaultColWidth) :
        rows \in Tables, columnFormats \in FormatsPool,
        colsep \in {None, Val(<<"|">>)}, defaultColWidth \in {None, Val(3)} }

\* No generator: formatTable has not been called.
NoGenerator == Generator(<<>>, None, None, None)

----------------------------------------------------------------------------
\* The store at a fresh path, no session yet.
StoreInit ==
    /\ tableExists = FALSE
    /\ stored = {}
    /\ conn = "none"
    /\ inTxn = FALSE
    /\ pending = {}
    /\ pc = "outside"
    /\ runs = 0
    /\ conns = <<>>
    /\ call = [op |-> "start"]
    /\ ret = Returned("None", None)
    /\ addLog = <<>>

\* do_edit is not running.
NotEditing ==
    [pc |-> "idle", rowid |-> NoneCell, fresh |-> FALSE, member |-> None]

Init == StoreInit /\ fmt = NoGenerator /\ edit = NotEditing

\* with Roster(dbFilePath) as roster: Roster.__init__, then __enter__.
\* fault is what the store does to this open: nothing ("none"), or a failure
\* of a statement of createTables ("schema": the file is no database, or
\* cannot be written). A failure of connect itself acquires no connection
\* and leaves every variable but the count of runs as it was.
RosterEnter(fault) ==
    /\ UNCHANGED <<fmt, edit>>
    /\ pc = "outside"
    /\ runs < MaxRuns
    /\ runs' = runs + 1
    /\ call' = [op |-> "enter", fault |-> fault]
    /\ inTxn' = FALSE
    /\ UNCHANGED <<addLog>>
    /\ IF fault = "schema"
         THEN /\ conn' = "open"
              /\ conns' = Append(conns, 0)
              /\ ret' = Returned("raise", "DatabaseError")
              /\ pc' = "outside"
              /\ UNCHANGED <<tableExists, stored, pending>>
       ELSE /\ conn' = "open"
            /\ conns' = Append(conns, 0)
            /\ stored' = createTables(tableExists, stored)
            /\ tableExists' = TRUE
            /\ pending' = stored'
            /\ ret' = Returned("roster", None)
            /\ pc' = "session"

\* The with statement's body ends (how: it returns, or an exception such as
\* do_quit's SystemExit leaves it) and __exit__ runs.
RosterExit(how) ==
    /\ UNCHANGED <<fmt, edit>>
    /\ pc = "session"
    /\ call' = [op |-> "exit", how |-> how]
    /\ conns' = [conns EXCEPT ![Len(conns)] = @ + 1]
    /\ conn' = "closed"
    /\ inTxn' = FALSE
    /\ pending' = stored
    /\ ret' = Returned("False", None)
    /\ pc' = "outside"
    /\ UNCHANGED <<tableExists, stored, runs, addLog>>

RosterList ==
    /\ UNCHANGED <<fmt, edit>>
    /\ pc = "session"
    /\ call' = [op |-> "list"]
    /\ ret' = list(pending)
    /\ UNCHANGED <<tableExists, stored, conn, inTxn, pending, pc, runs, conns,
                   addLog>>

RosterAdd(member) ==
    /\ UNCHANGED <<fmt, edit>>
    /\ pc = "session"
    /\ Cardinality(pending) < MaxRows
    /\ call' = [op |-> "add", member |-> member]
    /\ pending' = insertRow(pending, member)
    /\ stored' = pending'
    /\ inTxn' = FALSE
    /\ ret' = Returned("None", None)
    /\ addLog' = Append(addLog, [run |-> runs, rowid |-> NewRowid(pending)])
    /\ UNCHANGED <<tableExists, conn, pc, runs, conns>>

\* A get that ends with conn.commit().
RosterGetCommitting(rowid) ==
    /\ UNCHANGED <<fmt, edit>>
    /\ pc = "session"
    /\ call' = [op |-> "get", rowid |-> rowid]
    /\ ret' = get(pending, rowid)
    /\ stored' = pending
    /\ inTxn' = FALSE
    /\ UNCHANGED <<tableExists, conn, pending, pc, runs, conns, addLog>>

RosterGet(rowid) ==
    /\ UNCHANGED <<fmt, edit>>
    /\ pc = "session"
    /\ call' = [op |-> "get", rowid |-> rowid]
    /\ ret' = get(pending, rowid)
    /\ UNCHANGED <<tableExists, stored, conn, inTxn, pending, pc, runs, conns,
                   addLog>>

RosterUpdate(member) ==
    /\ UNCHANGED <<fmt, edit>>
    /\ pc = "session"
    /\ call' = [op |-> "update", member |-> member]
    /\ inTxn' = TRUE
    /\ IF Bindable(member.rowid)
         THEN /\ pending' = updateRows(pending, member)
              /\ ret' = Returned("None", None)
         ELSE /\ pending' = pending
              /\ ret' = Returned("raise", "OverflowError")
    /\ UNCHANGED <<tableExists, stored, conn, pc, runs, conns, addLog>>

ShellValidateRowid(text) ==
    /\ UNCHANGED <<fmt, edit>>
    /\ pc = "session"
    /\ call' = [op |-> "validateRowid", text |-> text]
    /\ ret' = Returned("rowid", validateRowid(text))
    /\ UNCHANGED <<tableExists, stored, conn, inTxn, pending, pc, runs, conns,
                   addLog>>

Next ==
    \/ \E fault \in {"none", "schema"} : RosterEnter(fault)
    \/ \E how \in {"return", "raise"} : RosterExit(how)
    \/ RosterList
    \/ \E member \in AddArgs : RosterAdd(member)
    \/ \E rowid \in Ids : RosterGet(rowid)
    \/ \E member \in MemberArgs : RosterUpdate(member)
    \/ \E text \in Inputs : ShellValidateRowid(text)

Spec == Init /\ [][Next]_vars

\* formatTable on its own: a caller holds a generator over some rows and
\* calls next() on it until it stops or raises.
InitFormat == StoreInit /\ fmt \in Generators /\ edit = NotEditing

FormatNext ==
    /\ fmt.status = "running"
    /\ fmt' = nextItem(fmt)
    /\ UNCHANGED <<tableExists, stored, conn, inTxn, pending, pc, runs, conns,
                   call, ret, addLog, edit>>

NextFormat == FormatNext

SpecFormat == InitFormat /\ [][NextFormat]_vars

----------------------------------------------------------------------------
\* The shell: cmdloop runs one command at a time inside the with statement.

\* What the user may type at getNewValue's prompts.
Answers == {"", " ", "Ada", "Lovelace", "2016-05-01"}

\* The three answers of one do_edit: first name, last name, introduced date.
EditAnswers ==
    { <<"", "", "">>, <<"Lovelace", "Ada", "2016-05-01">>,
      <<"Ada", "Lovelace", " ">>, <<"", "", "2016-05-01">> }

\* getNewValue: enter keeps the old value, spaces clear it
getNewValue(value, oldValue) ==
    IF value = "" THEN oldValue
    ELSE IF value = " " THEN None
    ELSE Val(value)

\* args.split(' ')[0]
RECURSIVE splitFirst(_)
splitFirst(args) ==
    IF args = <<>> THEN <<>>
    ELSE IF Head(args) = " " THEN <<>>
    ELSE <<Head(args)>> \o splitFirst(Tail(args))

\* validateRowid on what do_edit's loop holds: the text read from the user,
\* or the int a previous round of the loop left in rowid (int(n) is n).
validateRowidValue(rowid) ==
    IF rowid.t = "str" THEN validateRowid(rowid.v)
    ELSE IF rowid.v[1] < 1 THEN None
    ELSE Val(rowid.v[1])

\* The characters of the texts stored in the members table.
Chars(text) ==
    CASE text = "Ada" -> <<"A", "d", "a">>
      [] text = "Lovelace" -> <<"L", "o", "v", "e", "l", "a", "c", "e">>
      [] text = "2016-05-01" -> <<"2", "0", "1", "6", "-", "0", "5", "-", "0", "1">>

memberToList(member) ==
    << IntCell(member.rowid[1]),
       StrCell(join(<<" ">>, <<Chars(member.first[1]), Chars(member.last[1])>>)),
       IF member.introducedDate = None THEN NoneCell
       ELSE StrCell(Chars(member.introducedDate[1])) >>

TextIntroduced == <<"i", "n", "t", "r", "o", "d", "u", "c", "e", "d">>

DoListFormats ==
    Val(<<ColumnFormat(TextId, 4), ColumnFormat(TextName, 30),
          ColumnFormat(TextIntroduced, 12)>>)

\* for line in lines: the generator is run until it stops or raises.
RECURSIVE consume(_)
consume(f) == IF f.status # "running" THEN f ELSE consume(nextItem(f))

\* main: with Roster(dbFilePath) as roster, then cmdloop
ShellStart ==
    /\ edit.pc = "idle"
    /\ RosterEnter("none")

\* do_quit: exit() raises SystemExit, which leaves the with statement.
DoQuit ==
    /\ edit.pc = "idle"
    /\ RosterExit("raise")

DoList ==
    /\ pc = "session"
    /\ edit.pc = "idle"
    /\ call' = [op |-> "do_list"]
    /\ LET members == list(pending).value
           lines == consume(Generator([i \in 1..Len(members) |->
                                          memberToList(members[i])],
                                      DoListFormats, None, None))
       IN  ret' = IF lines.status = "raised"
                    THEN Returned("raise", lines.error[1].type)
                  ELSE Returned("printed", lines.out)
    /\ UNCHANGED <<tableExists, stored, conn, inTxn, pending, pc, runs, conns,
                   addLog, fmt, edit>>

\* do_add: the date is whatever input() returned, so it is never None.
DoAdd(member) ==
    /\ edit.pc = "idle"
    /\ member.rowid = None
    /\ member.introducedDate # None
    /\ RosterAdd(member)

\* do_edit up to the head of its loop.
DoEdit(args) ==
    /\ pc = "session"
    /\ edit.pc = "idle"
    /\ call' = [op |-> "do_edit", args |-> args]
    /\ edit' = [pc |-> "validate", rowid |-> StrCell(splitFirst(args)),
                fresh |-> TRUE, member |-> None]
    /\ UNCHANGED <<tableExists, stored, conn, inTxn, pending, pc, runs, conns,
                   ret, addLog, fmt>>

\* rowid = self.validateRowid(rowid); if rowid is None: (go to the prompt)
EditValidate ==
    /\ edit.pc = "validate"
    /\ call' = [op |-> "do_edit.validateRowid", rowid |-> edit.rowid]
    /\ ret' = Returned("rowid", validateRowidValue(edit.rowid))
    /\ edit' = IF validateRowidValue(edit.rowid) = None
                 THEN [edit EXCEPT !.pc = "input", !.rowid = NoneCell]
               ELSE [edit EXCEPT !.pc = "get",
                                 !.rowid = IntCell(validateRowidValue(edit.rowid)[1])]
    /\ UNCHANGED <<tableExists, stored, conn, inTxn, pending, pc, runs, conns,
                   addLog, fmt>>

\* rowid = input('Enter member id: '); continue
EditInput(text) ==
    /\ edit.pc = "input"
    /\ call' = [op |-> "do_edit.input", text |-> text]
    /\ edit' = [edit EXCEPT !.pc = "validate", !.rowid = StrCell(text),
                            !.fresh = TRUE]
    /\ UNCHANGED <<tableExists, stored, conn, inTxn, pending, pc, runs, conns,
                   ret, addLog, fmt>>

\* member = self.roster.get(rowid): a member ends the loop, None sends it to
\* the head of the loop with rowid as it is, and an exception leaves do_edit,
\* cmdloop and the with statement.
EditGet ==
    /\ edit.pc = "get"
    /\ call' = [op |-> "do_edit.get", rowid |-> edit.rowid.v[1]]
    /\ ret' = get(pending, edit.rowid.v[1])
    /\ IF ret'.kind = "raise"
         THEN /\ edit' = NotEditing
              /\ conns' = [conns EXCEPT ![Len(conns)] = @ + 1]
              /\ conn' = "closed"
              /\ inTxn' = FALSE
              /\ pending' = stored
              /\ pc' = "outside"
       ELSE /\ edit' = IF ret'.kind = "None"
                         THEN [edit EXCEPT !.pc = "validate", !.fresh = FALSE]
                       ELSE [edit EXCEPT !.pc = "fields", !.fresh = FALSE,
                                         !.member = Val(ret'.value)]
            /\ UNCHANGED <<conn, conns, inTxn, pending, pc>>
    /\ UNCHANGED <<tableExists, stored, runs, addLog, fmt>>

\* The three getNewValue calls, then self.roster.update(member).
EditFields(answers) ==
    /\ edit.pc = "fields"
    /\ LET old == edit.member[1]
           member == [old EXCEPT
                        !.first = getNewValue(answers[1], old.first),
                        !.last = getNewValue(answers[2], old.last),
                        !.introducedDate = getNewValue(answers[3],
                                                       old.introducedDate)]
       IN  /\ call' = [op |-> "do_edit.update", member |-> member]
           /\ pending' = updateRows(pending, member)
    /\ inTxn' = TRUE
    /\ ret' = Returned("None", None)
    /\ edit' = NotEditing
    /\ UNCHANGED <<tableExists, stored, conn, pc, runs, conns, addLog, fmt>>

NextShell ==
    \/ ShellStart
    \/ DoQuit
    \/ DoList
    \/ \E member \in AddArgs : DoAdd(member)
    \/ \E args \in Inputs : DoEdit(args)
    \/ EditValidate
    \/ \E text \in Inputs : EditInput(text)
    \/ EditGet
    \/ \E answers \in EditAnswers : EditFields(answers)

SpecShell == Init /\ [][NextShell]_vars

----------------------------------------------------------------------------
\* What the claims speak of, said without the operators above.

\* The member a row stands for: its id and its three fields.
RowAsMember(r) ==
    [rowid |-> Val(r.rowid), first |-> r.first, last |-> r.last,
     introducedDate |-> r.introducedDate]

Elements(seq) == { seq[i] : i \in DOMAIN seq }

AddedWithoutId == call.op = "add" /\ call.member.rowid = None

AddedWithId == call.op = "add" /\ call.member.rowid # None

\* An integer that fits sqlite's INTEGER.
InSqliteRange(i) == 0 - 2 ^ (IntBits - 1) <= i /\ i < 2 ^ (IntBits - 1)

\* The rows with the id a member carries: none when the id is unset.
RowsWithIdOf(member, rows) ==
    { r \in rows : member.rowid # None /\ r.rowid = member.rowid[1] }

----------------------------------------------------------------------------
C2_AddWithIdRejected ==
    [][AddedWithId' =>
        /\ ret' = Returned("raise", "InvalidArgument")
        /\ pending' = pending
        /\ stored' = stored]_vars

\* C3: update of a member carrying the id of a stored row, then get of that
\* id, returns exactly the member's fields and that id.
C3_UpdateThenGet ==
    (call.op = "update" /\ RowsWithIdOf(call.member, pending) # {})
        => get(pending, call.member.rowid[1]) = Returned("member", call.member)

\* An update that hit a row and changed it, in a store of two rows.
C3_Witness ==
    /\ call.op = "update"
    /\ RowsWithIdOf(call.member, pending) # {}
    /\ pending # stored
    /\ Cardinality(pending) = 2

\* C4 as stated: update of a member whose id is unset or matches no stored
\* row fails with NotFound and leaves the stored rows unchanged.
C4_UpdateMissRaisesNotFound ==
    [][(call'.op = "update" /\ RowsWithIdOf(call'.member, pending) = {}) =>
        /\ ret' = Returned("raise", "NotFound")
        /\ pending' = pending
        /\ stored' = stored]_vars

\* C4 amended: update of a member whose id is unset or matches no stored row
\* leaves the stored rows unchanged and never fails with NotFound: it
\* returns normally (None), or, for an id outside sqlite's integer range,
\* binding the id raises OverflowError.
C4_UpdateMissIsNoOp ==
    [][(call'.op = "update" /\ RowsWithIdOf(call'.member, pending) = {}) =>
        /\ pending' = pending
        /\ stored' = stored
        /\ ret' = IF call'.member.rowid = None \/ InSqliteRange(call'.member.rowid[1])
                    THEN Returned("None", None)
                    ELSE Returned("raise", "OverflowError")]_vars

\* An update with an unset id on a store that holds rows.
C4_Witness ==
    /\ call.op = "update"
    /\ call.member.rowid = None
    /\ Cardinality(pending) = 2

\* C5 as stated: get of a positive id that no stored row has returns the absent result
\* (None) and raises nothing; so it does for every positive id on an empty
\* store.
C5_GetMissReturnsAbsent ==
    (call.op = "get" /\ call.rowid >= 1
        /\ call.rowid \notin { r.rowid : r \in pending })
        => ret = Returned("None", None)

\* C6: list() returns every stored member exactly once in ascending id
\* order, whatever adds and updates came before; an empty store gives an
\* empty sequence.
C6_ListAscendingComplete ==
    call.op = "list" =>
        /\ ret.kind = "list"
        /\ Len(ret.value) = Cardinality(pending)
        /\ Elements(ret.value) = { RowAsMember(r) : r \in pending }
        /\ \A i, j \in DOMAIN ret.value :
              i < j => ret.value[i].rowid[1] < ret.value[j].rowid[1]

\* A list() of two members after an update that is not yet committed.
C6_Witness ==
    /\ call.op = "list"
    /\ Len(ret.value) = 2
    /\ pending # stored

\* C7: opening a session on a file whose table exists leaves the table as it
\* was: every add of an earlier run is still stored, the open changes no
\* stored row, and list() in the new session returns every member stored
\* before the open, with the ids of all earlier adds among them.
C7_ReopenKeepsMembers ==
    /\ [](\A k \in DOMAIN addLog :
            addLog[k].rowid \in { r.rowid : r \in stored })
    /\ [][(call'.op = "enter" /\ ret'.kind = "roster" /\ tableExists) =>
            /\ stored' = stored
            /\ { RowAsMember(r) : r \in stored }
                   \subseteq Elements(list(pending').value)]_vars
    /\ [](call.op = "list" =>
            \A k \in DOMAIN addLog :
                addLog[k].run < runs =>
                    Val(addLog[k].rowid) \in { m.rowid : m \in Elements(ret.value) })

\* A second session's list() on a file that an earlier session added to.
C7_Witness ==
    /\ call.op = "list"
    /\ runs >= 2
    /\ Len(ret.value) >= 1
    /\ \E k \in DOMAIN addLog : addLog[k].run < runs

\* C8 as stated: every connection acquired is released exactly once on every
\* exit path, a failure while ensuring the schema included: outside a
\* session no acquired connection is open, and none is ever closed twice.
C8_ReleasedExactlyOnce ==
    /\ \A k \in DOMAIN conns : conns[k] <= 1
    /\ pc = "outside" => \A k \in DOMAIN conns : conns[k] = 1

\* C9: no two stored members share an id, and no id is assigned twice by
\* add, across all sessions on the file.
C9_IdsUniqueNeverReused ==
    /\ \A r, q \in pending : r.rowid = q.rowid => r = q
    /\ \A r, q \in stored : r.rowid = q.rowid => r = q
    /\ \A i, j \in DOMAIN addLog : i # j => addLog[i].rowid # addLog[j].rowid

\* Two adds made in different sessions on the same file.
C9_Witness ==
    /\ Len(addLog) = 2
    /\ addLog[1].run # addLog[2].run

\* C10 as stated: get and update with an id that is no positive integer
\* fail with InvalidArgument.
C10_NonPositiveIdRejected ==
    /\ (call.op = "get" /\ call.rowid < 1)
          => ret = Returned("raise", "InvalidArgument")
    /\ (call.op = "update" /\ call.member.rowid # None
            /\ call.member.rowid[1] < 1)
          => ret = Returned("raise", "InvalidArgument")

\* What validateRowid is to return for each text of Inputs: the integer for
\* the texts that Python's int reads as an integer of at least 1.
PositiveIntegerTexts ==
    { <<<<"1">>, 1>>, <<<<"2">>, 2>>, <<<<" ", "1">>, 1>>, <<<<"1", "0">>, 10>> }

\* C10 amended: get with a zero or negative integer id returns the absent
\* result (None) and update with one changes no row and returns normally;
\* neither raises InvalidArgument (an id below sqlite's integer range raises
\* OverflowError when it is bound). Ids that are no positive integer are
\* turned away by the shell's validateRowid, which returns None for a text
\* that is no integer or is below 1, and the integer otherwise.
C10_NonPositiveIdIsAbsent ==
    /\ []((call.op = "get" /\ call.rowid < 1) =>
            ret = IF InSqliteRange(call.rowid) THEN Returned("None", None)
                  ELSE Returned("raise", "OverflowError"))
    /\ [][(call'.op = "update" /\ call'.member.rowid # None
             /\ call'.member.rowid[1] < 1) =>
            /\ ret' = IF InSqliteRange(call'.member.rowid[1])
                        THEN Returned("None", None)
                        ELSE Returned("raise", "OverflowError")
            /\ pending' = pending
            /\ stored' = stored]_vars
    /\ [](call.op = "validateRowid" =>
            /\ ret.kind = "rowid"
            /\ \A p \in PositiveIntegerTexts :
                  call.text = p[1] => ret.value = Val(p[2])
            /\ (\A p \in PositiveIntegerTexts : call.text # p[1])
                  => ret.value = None)

\* A get of id 0 on a store that holds rows.
C10_Witness ==
    /\ call.op = "get"
    /\ call.rowid = 0
    /\ pending # {}

\* The store was fresh when this session opened it: every row it holds was
\* added in this session.
FreshThisRun == \A k \in DOMAIN addLog : addLog[k].run = runs

C15_ReadsChangeNothing ==
    [][(call'.op \in {"list", "get"}) =>
        /\ stored' = stored
        /\ pending' = pending
        /\ inTxn' = inTxn
        /\ tableExists' = tableExists]_vars

\* A get made while an update is pending, uncommitted.
C15_Witness ==
    /\ call.op = "get"
    /\ inTxn
    /\ pending # stored

\* C16 as stated: once update(m) has returned for an existing id, closing the
\* session with no further operation leaves the updated fields in the file,
\* where a reopened session's get(m.id) finds them.
C16_UpdateSurvivesClose ==
    [][(/\ call.op = "update"
        /\ ret = Returned("None", None)
        /\ RowsWithIdOf(call.member, pending) # {}
        /\ call'.op = "exit") =>
        get(stored', call.member.rowid[1]) = Returned("member", call.member)]_vars

\* C19: update(m) changes only the row whose id is m's: every other row
\* keeps its id and fields, the number of rows and the set of ids stay.
C19_UpdateTouchesOneRow ==
    [][call'.op = "update" =>
        /\ \A r \in pending :
              (call'.member.rowid = None \/ r.rowid # call'.member.rowid[1])
                  => r \in pending'
        /\ Cardinality(pending') = Cardinality(pending)
        /\ { r.rowid : r \in pending' } = { r.rowid : r \in pending }]_vars

\* An update that hit one of two rows, the other row holding other fields.
C19_Witness ==
    /\ call.op = "update"
    /\ RowsWithIdOf(call.member, pending) # {}
    /\ \E r \in pending :
          r.rowid # call.member.rowid[1] /\ r.first # call.member.first


----------------------------------------------------------------------------
\* Claims about formatTable, checked in SpecFormat. What a line must look
\* like is stated here character by character.

Larger(a, b) == IF a >= b THEN a ELSE b

\* The text each cell of RowPool is rendered as.
TextOf(cell) ==
    CASE cell = IntCell(1) -> <<"1">>
      [] cell = IntCell(12) -> <<"1", "2">>
      [] cell = NoneCell -> <<"N", "o", "n", "e">>
      [] OTHER -> cell.v

TextsOf(row) == [j \in 1..Len(row) |-> TextOf(row[j])]

\* line is texts[1], ..., texts[n], each followed by spaces up to its width
\* when it is shorter, with sep between consecutive ones and nothing else.
RECURSIVE IsLaidOut(_, _, _, _)
IsLaidOut(line, texts, widths, sep) ==
    IF texts = <<>> THEN line = <<>>
    ELSE LET text == texts[1]
             cellLen == Larger(Len(text), widths[1])
         IN  /\ Len(line) >= cellLen
             /\ SubSeq(line, 1, Len(text)) = text
             /\ \A p \in (Len(text) + 1)..cellLen : line[p] = " "
             /\ IF Len(texts) = 1 THEN Len(line) = cellLen
                ELSE /\ Len(line) >= cellLen + Len(sep)
                     /\ SubSeq(line, cellLen + 1, cellLen + Len(sep)) = sep
                     /\ IsLaidOut(SubSeq(line, cellLen + Len(sep) + 1, Len(line)),
                                  Tail(texts), Tail(widths), sep)

HasFormats == fmt.columnFormats # None /\ fmt.columnFormats # <<(<<>>)>>

FormatCount == Len(fmt.columnFormats[1])

FormatWidths == [j \in 1..FormatCount |-> fmt.columnFormats[1][j].width]

FormatNames == [j \in 1..FormatCount |-> fmt.columnFormats[1][j].name]

SepUsed == IF fmt.colsep = None THEN <<" ", " ", " ">> ELSE fmt.colsep[1]

DefaultWidthUsed ==
    IF fmt.defaultColWidth = None THEN DefaultColWidth ELSE fmt.defaultColWidth[1]

\* The width row r's column j is justified to.
WidthsFor(r) ==
    [j \in 1..Len(fmt.rows[r]) |->
        IF HasFormats THEN fmt.columnFormats[1][j].width ELSE DefaultWidthUsed]

AllRowsFit == \A r \in 1..Len(fmt.rows) : Len(fmt.rows[r]) = FormatCount

\* C12: with k column formats and n >= 1 rows of k columns each, formatTable
\* raises nothing and, run to its end, has produced exactly n + 2 lines: the
\* names justified to their widths and joined by colsep, then width dashes per
\* column joined by colsep, then one line per row in input order, each cell
\* justified to its column's width.
C12_HeaderThenRows ==
    (HasFormats /\ Len(fmt.rows) >= 1 /\ AllRowsFit) =>
        /\ fmt.status # "raised"
        /\ fmt.status = "stopped" =>
            /\ Len(fmt.out) = Len(fmt.rows) + 2
            /\ IsLaidOut(fmt.out[1], FormatNames, FormatWidths, SepUsed)
            /\ IsLaidOut(fmt.out[2],
                         [j \in 1..FormatCount |->
                            [k \in 1..FormatWidths[j] |-> "-"]],
                         FormatWidths, SepUsed)
            /\ \A r \in 1..Len(fmt.rows) :
                 IsLaidOut(fmt.out[r + 2], TextsOf(fmt.rows[r]),
                           FormatWidths, SepUsed)

C12_Witness ==
    /\ fmt.columnFormats = Val(<<ColumnFormat(TextId, 4), ColumnFormat(TextName, 10)>>)
    /\ fmt.rows = << <<IntCell(1), StrCell(TextAnn)>>, <<IntCell(12), StrCell(TextBob)>> >>
    /\ fmt.colsep = None
    /\ fmt.status = "stopped"
    /\ Len(fmt.out) = 4

\* C13: with k column formats, when row r is the first whose column count
\* differs from k, formatTable never runs to its end and never yields more
\* than the lines of the rows before r (none at all when r is the first row,
\* else the two header lines and r - 1 row lines); when it raises, the error
\* reports the 0-based position r - 1, the row's column count and k.
C13_MismatchRaises ==
    HasFormats =>
        \A r \in 1..Len(fmt.rows) :
            (/\ Len(fmt.rows[r]) # FormatCount
             /\ \A q \in 1..(r - 1) : Len(fmt.rows[q]) = FormatCount) =>
                /\ fmt.status # "stopped"
                /\ Len(fmt.out) <= (IF r = 1 THEN 0 ELSE r + 1)
                /\ fmt.status = "raised" =>
                    /\ fmt.error = Val([type |-> "Exception", row |-> r - 1,
                                        actual |-> Len(fmt.rows[r]),
                                        expected |-> FormatCount])
                    /\ Len(fmt.out) = (IF r = 1 THEN 0 ELSE r + 1)

C13_Witness ==
    /\ HasFormats
    /\ Len(fmt.rows) = 2
    /\ Len(fmt.rows[1]) = FormatCount
    /\ Len(fmt.rows[2]) # FormatCount
    /\ fmt.status = "raised"
    /\ fmt.error[1].row = 1
    /\ Len(fmt.out) = 3

\* C14: without column formats (absent, or an empty sequence) formatTable
\* raises nothing whatever the rows' column counts, yields no header line,
\* and the r-th line it yields is row r with every cell justified to
\* defaultColWidth and joined by colsep; run to its end it has yielded
\* exactly one line per row.
C14_NoFormatsOneLinePerRow ==
    ~HasFormats =>
        /\ fmt.status # "raised"
        /\ Len(fmt.out) <= Len(fmt.rows)
        /\ fmt.status = "stopped" => Len(fmt.out) = Len(fmt.rows)
        /\ \A r \in 1..Len(fmt.out) :
             IsLaidOut(fmt.out[r], TextsOf(fmt.rows[r]),
                       [j \in 1..Len(fmt.rows[r]) |-> DefaultWidthUsed], SepUsed)

C14_Witness ==
    /\ fmt.columnFormats = Val(<<>>)
    /\ Len(fmt.rows) = 2
    /\ Len(fmt.rows[1]) # Len(fmt.rows[2])
    /\ fmt.status = "stopped"
    /\ Len(fmt.out) = 2

RECURSIVE SumTo(_, _)
SumTo(f, n) == IF n = 0 THEN 0 ELSE f[n] + SumTo(f, n - 1)

\* The length each cell of row r is rendered at when nothing is cut.
CellLens(r) ==
    [j \in 1..Len(fmt.rows[r]) |->
        Larger(WidthsFor(r)[j], Len(TextOf(fmt.rows[r][j])))]

\* Where the line of row r is in the output, once it has been yielded.
LineOf(r) == fmt.out[IF HasFormats THEN r + 2 ELSE r]

RowYielded(r) == Len(fmt.out) >= (IF HasFormats THEN r + 2 ELSE r)

\* C18: every row line formatTable yields holds the full text of each of the
\* row's cells, each cell taking max(width, length of its text) characters:
\* the line's length is the sum of these plus the separators, and each text
\* stands whole at its cell's start.
C18_NoTruncation ==
    \A r \in 1..Len(fmt.rows) :
        (RowYielded(r) /\ Len(fmt.rows[r]) >= 1) =>
            /\ Len(LineOf(r)) = SumTo(CellLens(r), Len(fmt.rows[r]))
                                + (Len(fmt.rows[r]) - 1) * Len(SepUsed)
            /\ \A j \in 1..Len(fmt.rows[r]) :
                 LET start == SumTo(CellLens(r), j - 1) + (j - 1) * Len(SepUsed)
                 IN  SubSeq(LineOf(r), start + 1,
                            start + Len(TextOf(fmt.rows[r][j])))
                       = TextOf(fmt.rows[r][j])

C18_Witness ==
    \E r \in 1..Len(fmt.rows) :
        /\ RowYielded(r)
        /\ HasFormats
        /\ \E j \in 1..Len(fmt.rows[r]) :
             /\ Len(TextOf(fmt.rows[r][j])) > WidthsFor(r)[j]
             /\ j < Len(fmt.rows[r])

\* C20: given no rows, formatTable yields no line and raises nothing, with
\* column formats or without.
C20_NoRowsNoLines ==
    fmt.rows = <<>> => fmt.out = <<>> /\ fmt.status # "raised"

C20_Witness ==
    /\ fmt.rows = <<>>
    /\ HasFormats
    /\ fmt.status = "stopped"
    /\ fmt.out = <<>>


----------------------------------------------------------------------------
\* C17: in do_edit, every call of Roster.get is on a rowid read from the
\* user (the command's argument or the prompt's answer) since the previous
\* call of get: after a get that found nothing the user is asked again.
C17_RepromptsBeforeNextGet == edit.pc = "get" => edit.fresh

=============================================================================
